---- MODULE Spec2Model ----
(***************************************************************************)
(* Model of docq's document readers                                        *)
(* (source/docq/data_source/support/opendal_reader/base.py) and of the     *)
(* Google Drive download service (source/docq/services/google_drive.py).   *)
(*                                                                         *)
(* Strings that the code builds by formatting (paths, document ids) are    *)
(* sequences of string tokens, so that formatting is concatenation and two *)
(* formatted values are equal exactly when their tokens are.               *)
(***************************************************************************)
EXTENDS Integers, Sequences, FiniteSets, TLC

(* ---------------------------- bounds ---------------------------------- *)

\* number of load_data calls made on the reader
MaxRuns == 2

\* number of entries a listing (scan / folder content) returns
MaxFiles == 3

(* ------------------------- static tables ------------------------------ *)

DEFAULT_FILE_READER_CLS ==
    (".pdf" :> "PDFReader") @@ (".docx" :> "DocxReader") @@ (".pptx" :> "PptxReader") @@
    (".jpg" :> "ImageReader") @@ (".png" :> "ImageReader") @@ (".jpeg" :> "ImageReader") @@
    (".mp3" :> "VideoAudioReader") @@ (".mp4" :> "VideoAudioReader") @@
    (".csv" :> "PandasCSVReader") @@ (".epub" :> "EpubReader") @@
    (".md" :> "MarkdownReader") @@ (".mbox" :> "MboxReader") @@ (".ipynb" :> "IPYNBReader")

FILE_MIME_EXTENSION_MAP ==
    ("application/pdf" :> ".pdf") @@
    ("application/vnd.openxmlformats-officedocument.wordprocessingml.document" :> ".docx") @@
    ("application/vnd.openxmlformats-officedocument.presentationml.presentation" :> ".pptx") @@
    ("application/vnd.openxmlformats-officedocument.spreadsheetml.sheet" :> ".xlsx") @@
    ("application/vnd.google-apps.document" :> ".gdoc") @@
    ("application/vnd.google-apps.presentation" :> ".gslides") @@
    ("application/vnd.google-apps.spreadsheet" :> ".gsheet") @@
    ("image/jpeg" :> ".jpg") @@ ("image/png" :> ".png") @@ ("image/jpg" :> ".jpg") @@
    ("audio/mpeg" :> ".mp3") @@ ("audio/mp3" :> ".mp3") @@
    ("video/mp4" :> ".mp4") @@ ("video/mpeg" :> ".mp4") @@
    ("text/csv" :> ".csv") @@ ("application/epub+zip" :> ".epub") @@
    ("text/markdown" :> ".md") @@ ("application/x-ipynb+json" :> ".ipynb") @@
    ("application/mbox" :> ".mbox")

\* FILE_MIME_EXTENSION_MAP.get(mime, None)
MimeSuffix(mime) ==
    IF mime \in DOMAIN FILE_MIME_EXTENSION_MAP THEN FILE_MIME_EXTENSION_MAP[mime] ELSE "None"

GDRIVE_FOLDER_MIME == "application/vnd.google-apps.folder"

\* "google-apps" in mime
IsGoogleApps(mime) ==
    mime \in { GDRIVE_FOLDER_MIME, "application/vnd.google-apps.document",
               "application/vnd.google-apps.presentation", "application/vnd.google-apps.spreadsheet" }

(* --------------------------- path helpers ----------------------------- *)

\* the tokens that are a file-name extension
SuffixTokens ==
    DOMAIN DEFAULT_FILE_READER_CLS \cup {".xyz", ".PDF", ".xlsx", ".gdoc", ".gslides", ".gsheet"}

\* pathlib.Path(p).suffix : the extension of the last component, "" if none
Suffix(p) ==
    IF Len(p) > 1 /\ p[Len(p)] \in SuffixTokens /\ p[Len(p) - 1] # "/" THEN p[Len(p)] ELSE ""

\* str.lower() on an extension
Lower(s) == IF s = ".PDF" THEN ".pdf" ELSE s

\* str.endswith("/")
EndsWithSlash(p) == Len(p) > 0 /\ p[Len(p)] = "/"

(* ------------------------- the remote side ---------------------------- *)

\* The files a backend can hold.  size is the size the listing reports,
\* bytes the length of the content, pages the number of documents a
\* format reader makes of the content.
Catalogue ==
    { [id |-> 1, name |-> <<"a", ".pdf">>, mime |-> "application/pdf", size |-> 10, bytes |-> 10, pages |-> 2],
      [id |-> 2, name |-> <<"a", ".pdf">>, mime |-> "application/pdf", size |-> 7,  bytes |-> 5,  pages |-> 1],
      [id |-> 3, name |-> <<"b", ".xyz">>, mime |-> "application/x-xyz", size |-> 4, bytes |-> 4,  pages |-> 1],
      [id |-> 4, name |-> <<"c">>,         mime |-> "application/pdf", size |-> 3,  bytes |-> 3,  pages |-> 1],
      [id |-> 5, name |-> <<"d">>, mime |-> "application/vnd.google-apps.document", size |-> 0, bytes |-> 6, pages |-> 1] }

FileById(i) == CHOOSE f \in Catalogue : f.id = i

RECURSIVE SortedSeq(_)
\* the files of S in listing order (by id)
SortedSeq(S) ==
    IF S = {} THEN <<>>
    ELSE LET m == CHOOSE f \in S : \A g \in S : f.id <= g.id
         IN  <<m>> \o SortedSeq(S \ {m})

\* what a listing call can return
Listings == { SortedSeq(S) : S \in { T \in SUBSET Catalogue : Cardinality(T) <= MaxFiles } }

\* the directory the object-store reader is pointed at
DirPath == <<"docs", "/">>

\* obj.path of an object found by the scan (object paths are unique)
ObjPath(f) == DirPath \o <<ToString(f.id), "/">> \o f.name

\* file["webViewLink"] / file["webUrl"]
WebLink(f) == <<"https://drive/", ToString(f.id)>>

\* the paths a reader is constructed with
Paths == { DirPath, ObjPath(FileById(1)) }

(* ------------------------------ state --------------------------------- *)

VARIABLES
    kind,                 \* which reader class was constructed
    path,                 \* self.path
    file_extractor,       \* self.file_extractor, the caller's override mapping
    has_downloaded_files, \* whether the attribute self.downloaded_files exists
    downloaded_files,     \* self.downloaded_files
    documents,            \* self.documents
    run,                  \* number of load_data calls so far; also the clock
    pc,                   \* position of the current load_data call
    temp_dir,             \* whether the run's temporary directory exists
    disk,                 \* the files in the temporary directory
    files,                \* the listing of the current run
    idx,                  \* position of the download loop in files
    batch,                \* the list the download function is building
    tasks,                \* the extraction tasks of extract_files
    exc,                  \* the exception the current/last run ended with
    outcome,              \* how the last load_data call ended
    returned,             \* what the last load_data call returned
    attempted,            \* history: positions whose download was started
    failed,               \* history: positions whose download call raised
    dl_state,             \* history: how the batch download ended
    late_read,            \* history: a task ran without the directory
    listing,              \* history: how the listing step of the run ended
    space_groups,         \* committed rows of table space_groups
    space_group_members,  \* committed rows of table space_group_members
    txn,                  \* the uncommitted tables of the open connection
    op,                   \* the store operation in progress, with its arguments
    now,                  \* the clock of the store operations
    foreign_keys          \* whether the SQLite build enforces foreign keys

config == <<kind, path, file_extractor>>
self   == <<has_downloaded_files, downloaded_files, documents>>
locals == <<files, idx, batch, tasks>>
result == <<exc, outcome, returned>>
hist   == <<attempted, failed, dl_state, late_read>>
store  == <<space_groups, space_group_members, txn, op, now, foreign_keys>>
pipeline == <<config, self, run, pc, temp_dir, disk, locals, result, hist, listing>>
vars   == <<pipeline, store>>

\* the mappings a caller passes as file_extractor (None becomes {})
NoOverride == [s \in {} |-> "None"]
Overrides == { NoOverride, [s \in {".pdf", ".xyz"} |-> "CustomReader"] }

\* no store operation is in progress
NoOp == [kind |-> "none", pc |-> "idle"]

\* no connection is open
NoTxn == [open |-> FALSE]

\* the tables as _init leaves them, and no operation running
StoreAtRest ==
    /\ space_groups = {}
    /\ space_group_members = {}
    /\ txn = NoTxn
    /\ op = NoOp
    /\ now = 0

\* OpendalReader.__init__ does not create self.downloaded_files;
\* FileStorageBaseReader.__init__ sets it to [].
Init ==
    /\ StoreAtRest
    /\ foreign_keys = FALSE
    /\ listing = "none"
    /\ kind \in {"opendal", "gdrive", "onedrive"}
    /\ path \in (IF kind = "opendal" THEN Paths ELSE {<<"/">>})
    /\ file_extractor \in Overrides
    /\ has_downloaded_files = (kind # "opendal")
    /\ downloaded_files = <<>>
    /\ documents = <<>>
    /\ run = 0
    /\ pc = "idle"
    /\ temp_dir = FALSE
    /\ disk = {}
    /\ files = <<>>
    /\ idx = 1
    /\ batch = <<>>
    /\ tasks = <<>>
    /\ exc = "none"
    /\ outcome = "none"
    /\ returned = <<>>
    /\ attempted = {}
    /\ failed = {}
    /\ dl_state = "none"
    /\ late_read = FALSE

(* ------------------------- temporary directory ------------------------ *)

\* the name tempfile.TemporaryDirectory() gives the directory of this run
TempDirName(r) == <<"tmp", ToString(r), "/">>

\* open(p, "wb") and write: the file at p is replaced
Write(d, p, content, complete) ==
    { e \in d : e.path # p } \cup { [path |-> p, content |-> content, complete |-> complete] }

Exists(d, p) == \E e \in d : e.path = p

DiskAt(d, p) == CHOOSE e \in d : e.path = p

\* a cleanup that runs on the normal exit only
TempDirAfterExit_OnReturnOnly(e) == e # "none"

\* TemporaryDirectory.__exit__: does the directory exist after the with
\* block was left (normally, e = "none", or by exception e)
TempDirAfterExit(e) == FALSE

(* ------------------------------ listing ------------------------------- *)

\* whether the download loop of the reader downloads f or skips it
Eligible(k, f) ==
    CASE k = "opendal"  -> TRUE
      [] k = "gdrive"   -> /\ f.mime # GDRIVE_FOLDER_MIME
                           /\ MimeSuffix(f.mime) \in DOMAIN DEFAULT_FILE_READER_CLS
      [] k = "onedrive" -> Suffix(f.name) \in DOMAIN DEFAULT_FILE_READER_CLS

\* the first position >= from that the loop does not skip
NextEligible(k, fs, from) ==
    LET E == { i \in from..Len(fs) : Eligible(k, fs[i]) }
    IN  IF E = {} THEN Len(fs) + 1 ELSE CHOOSE i \in E : \A j \in E : i <= j

ResetRun ==
    /\ run' = run + 1
    /\ batch' = <<>>
    /\ tasks' = <<>>
    /\ exc' = "none"
    /\ outcome' = "none"
    /\ returned' = <<>>
    /\ attempted' = {}
    /\ failed' = {}
    /\ dl_state' = "none"
    /\ late_read' = FALSE

\* OpendalReader.load_data up to the first call inside the with block
LoadDataOpendal ==
    /\ pc = "idle" /\ run < MaxRuns /\ kind = "opendal"
    /\ ResetRun
    /\ temp_dir' = TRUE
    /\ pc' = IF EndsWithSlash(path) THEN "scan" ELSE "single"
    /\ listing' = "none"
    /\ files' = <<>> /\ idx' = 1
    /\ UNCHANGED <<store, config, self, disk>>

\* a drive load_data whose listing step raised: no directory was made
ListingRaised ==
    /\ pc' = "idle" /\ exc' = "listing" /\ outcome' = "raised" /\ returned' = <<>>
    /\ listing' = "raised"
    /\ run' = run + 1
    /\ batch' = <<>> /\ tasks' = <<>> /\ files' = <<>> /\ idx' = 1
    /\ attempted' = {} /\ failed' = {} /\ dl_state' = "none" /\ late_read' = FALSE
    /\ UNCHANGED <<store, config, self, temp_dir, disk>>

\* a drive load_data whose listing returned l: the with block is entered
ListingReturned(l) ==
    /\ ResetRun
    /\ files' = l
    /\ listing' = "returned"
    /\ idx' = NextEligible(kind, l, 1)
    /\ temp_dir' = TRUE
    /\ pc' = "download"
    /\ UNCHANGED <<store, config, self, disk>>

\* GoogleDriveReader.load_data up to the download
LoadDataGDrive ==
    /\ pc = "idle" /\ run < MaxRuns /\ kind = "gdrive"
    /\ \/ ListingRaised
       \/ \E l \in Listings : ListingReturned(l)

\* OneDriveReader.load_data up to the download; get_client may give None
LoadDataOneDrive ==
    /\ pc = "idle" /\ run < MaxRuns /\ kind = "onedrive"
    /\ \/ ListingRaised
       \/ \E l \in Listings : ListingReturned(l)
       \/ /\ pc' = "idle" /\ exc' = "none" /\ outcome' = "returned" /\ returned' = documents
          /\ listing' = "no_client"
          /\ run' = run + 1
          /\ batch' = <<>> /\ tasks' = <<>> /\ files' = <<>> /\ idx' = 1
          /\ attempted' = {} /\ failed' = {} /\ dl_state' = "none" /\ late_read' = FALSE
          /\ UNCHANGED <<store, config, self, temp_dir, disk>>

\* download_dir_from_opendal: objs = await op.scan(download_dir)
Scan ==
    /\ pc = "scan"
    /\ \/ /\ exc' = "listing" /\ pc' = "exit" /\ listing' = "raised"
          /\ UNCHANGED <<files, idx>>
       \/ \E l \in Listings :
            /\ files' = l /\ idx' = NextEligible(kind, l, 1) /\ pc' = "download"
            /\ exc' = exc /\ listing' = "returned"
    /\ UNCHANGED <<store, config, self, run, temp_dir, disk, batch, tasks, outcome, returned, hist>>

(* ------------------------------ download ------------------------------ *)

\* the parameters download_file_from_opendal declares
DownloadFileParams == {"op", "temp_dir", "path"}

\* the keyword arguments of the call in the single-file branch of load_data
SingleFileCallKeywords == {"file_metadata"}

\* Python binds a call only if every keyword names a declared parameter;
\* otherwise the call raises TypeError before the function body runs
CallBinds(keywords, params) == keywords \subseteq params

\* f"{temp_dir}/{next(tempfile._get_candidate_names())}{suffix}": a fresh
\* random name (the n-th one drawn in this run) keeping the suffix of p
OpendalLocalPath(r, n, p) ==
    TempDirName(r) \o <<"rnd", ToString(n)>> \o (IF Suffix(p) = "" THEN <<>> ELSE <<Suffix(p)>>)

\* f"{temp_dir}/{file['name']}"
DriveLocalPath(r, f) == TempDirName(r) \o f.name

\* the loop body of the download function starts the download of files[idx]
DownloadStart ==
    /\ pc = "download" /\ idx <= Len(files)
    /\ attempted' = attempted \cup {idx}
    /\ pc' = "downloading"
    /\ UNCHANGED <<store, listing, config, self, run, temp_dir, disk, locals, result, failed, dl_state, late_read>>

\* download_dir_from_opendal: the awaited download_file_from_opendal ends.
\* Nothing catches an exception of open_reader / read: it leaves the loop,
\* the function and asyncio.run.
DownloadFinishOpendal ==
    /\ pc = "downloading" /\ kind = "opendal"
    /\ LET f  == files[idx]
           fp == OpendalLocalPath(run, idx, ObjPath(f))
       IN  \/ /\ disk' = Write(disk, fp, f.id, TRUE)
              /\ batch' = Append(batch, <<ObjPath(f), fp, run, f.bytes>>)
              /\ idx' = NextEligible(kind, files, idx + 1)
              /\ pc' = "download"
              /\ UNCHANGED <<exc, failed, dl_state>>
           \/ /\ failed' = failed \cup {idx}
              /\ exc' = "download"
              /\ dl_state' = "raised"
              /\ pc' = "exit"
              /\ UNCHANGED <<disk, batch, idx>>
    /\ UNCHANGED <<store, listing, config, self, run, temp_dir, files, tasks, outcome, returned, attempted, late_read>>

\* services.google_drive.download_file: what is on disk after the call.
\* A Google-native file is exported under f"{file_name}.pdf".
\* ok: the whole content was written.  Otherwise the exception was caught
\* and False returned; the file was not opened yet, or was left partial.
GDriveDownloadFile(d, fp, f, ok, opened) ==
    LET file_name == IF IsGoogleApps(f.mime) THEN fp \o <<".pdf">> ELSE fp
    IN  IF ok THEN Write(d, file_name, f.id, TRUE)
        ELSE IF opened THEN Write(d, file_name, f.id, FALSE)
        ELSE d

\* download_from_gdrive: the awaited download_file ends; its result is not
\* looked at and the record is appended
DownloadFinishGDrive ==
    /\ pc = "downloading" /\ kind = "gdrive"
    /\ LET f  == files[idx]
           fp == DriveLocalPath(run, f)
       IN  \E ok \in BOOLEAN, opened \in BOOLEAN :
              /\ ok => opened
              /\ disk' = GDriveDownloadFile(disk, fp, f, ok, opened)
              /\ failed' = IF ok THEN failed ELSE failed \cup {idx}
              /\ batch' = Append(batch, <<WebLink(f), fp, run, f.size>>)
              /\ idx' = NextEligible(kind, files, idx + 1)
              /\ pc' = "download"
    /\ UNCHANGED <<store, listing, config, self, run, temp_dir, files, tasks, result, attempted, dl_state, late_read>>

\* services.ms_onedrive.download_file: as the Google Drive one, a failed
\* download is logged and the call returns
OneDriveDownloadFile(d, fp, f, ok, opened) ==
    IF ok THEN Write(d, fp, f.id, TRUE)
    ELSE IF opened THEN Write(d, fp, f.id, FALSE)
    ELSE d

\* download_from_onedrive: the awaited download_file ends
DownloadFinishOneDrive ==
    /\ pc = "downloading" /\ kind = "onedrive"
    /\ LET f  == files[idx]
           fp == DriveLocalPath(run, f)
       IN  \E ok \in BOOLEAN, opened \in BOOLEAN :
              /\ ok => opened
              /\ disk' = OneDriveDownloadFile(disk, fp, f, ok, opened)
              /\ failed' = IF ok THEN failed ELSE failed \cup {idx}
              /\ batch' = Append(batch, <<WebLink(f), fp, run, f.size>>)
              /\ idx' = NextEligible(kind, files, idx + 1)
              /\ pc' = "download"
    /\ UNCHANGED <<store, listing, config, self, run, temp_dir, files, tasks, result, attempted, dl_state, late_read>>

Pending == [state |-> "pending", docs |-> <<>>]

\* The download function returns its list; load_data assigns it to
\* self.downloaded_files and calls extract_files, which creates one task
\* per record and then awaits gather.
EndDownload ==
    /\ pc = "download" /\ idx > Len(files)
    /\ dl_state' = "returned"
    /\ has_downloaded_files' = TRUE
    /\ downloaded_files' = batch
    /\ tasks' = [i \in 1..Len(batch) |-> Pending]
    /\ pc' = "extract"
    /\ UNCHANGED <<store, listing, config, documents, run, temp_dir, disk, files, idx, batch, result,
                   attempted, failed, late_read>>

\* The single-file branch of OpendalReader.load_data: the call passes
\* file_metadata=, which download_file_from_opendal does not declare.
\* Were the call bound, the 3-tuple it returns would be appended to
\* self.downloaded_files (AttributeError when the attribute is missing).
LoadSingleFile ==
    /\ pc = "single"
    /\ IF ~CallBinds(SingleFileCallKeywords, DownloadFileParams)
       THEN /\ exc' = "TypeError" /\ pc' = "exit"
            /\ UNCHANGED <<self, disk, tasks, attempted, failed, dl_state>>
       ELSE \E ok \in BOOLEAN :
              LET fp == OpendalLocalPath(run, 1, path)
                  f  == FileById(1)
              IN  /\ attempted' = {1}
                  /\ IF ~ok
                     THEN /\ exc' = "download" /\ pc' = "exit" /\ failed' = {1}
                          /\ dl_state' = "raised"
                          /\ UNCHANGED <<self, disk, tasks>>
                     ELSE /\ disk' = Write(disk, fp, f.id, TRUE)
                          /\ failed' = {}
                          /\ dl_state' = "returned"
                          /\ IF ~has_downloaded_files
                             THEN /\ exc' = "AttributeError" /\ pc' = "exit"
                                  /\ UNCHANGED <<self, tasks>>
                             ELSE /\ downloaded_files' = Append(downloaded_files, <<fp, run, f.bytes>>)
                                  /\ tasks' = [i \in 1..(Len(downloaded_files) + 1) |-> Pending]
                                  /\ pc' = "extract"
                                  /\ UNCHANGED <<has_downloaded_files, documents, exc>>
    /\ UNCHANGED <<store, listing, config, run, temp_dir, files, idx, batch, outcome, returned, late_read>>

(* ----------------------------- extraction ----------------------------- *)

\* f"{str(file_path)}_part_{i}"
PartId(file_path, i) == file_path \o <<"_part_", ToString(i)>>

\* the strategy extract_file uses for a suffix: the class registered in
\* DEFAULT_FILE_READER_CLS, else the plain read; the file_extractor
\* argument is accepted and never looked at
ReaderFor(file_suffix, fe) ==
    IF file_suffix \in DOMAIN DEFAULT_FILE_READER_CLS
    THEN DEFAULT_FILE_READER_CLS[file_suffix]
    ELSE "fallback"

\* a document: its id_, and as a record of where its text came from the
\* strategy, the local file and the position in that file's output
Doc(id, reader, file_path, i) == [id_ |-> id, reader |-> reader, file |-> file_path, part |-> i]

\* the documents a format reader makes of the content at file_path, with
\* the ids extract_file gives them (filename_as_id is always True here)
ReaderDocs(file_path, reader, d) ==
    LET n == FileById(DiskAt(d, file_path).content).pages
    IN  [i \in 1..n |-> Doc(PartId(file_path, i - 1), reader, file_path, i - 1)]

\* the one document of the plain read, whose id is the path itself
FallbackDocs(file_path) == << Doc(file_path, "fallback", file_path, 0) >>

Raised == [state |-> "raised", docs |-> <<>>]
Done(docs) == [state |-> "done", docs |-> docs]

\* extract_file: the ways the task for file_path can end.  A missing file
\* makes the reader (or open) raise; a format reader may also raise on a
\* file that is there.
ExtractFile(file_path, fe, d) ==
    LET file_suffix == Lower(Suffix(file_path))
        reader == ReaderFor(file_suffix, fe)
    IN  IF ~Exists(d, file_path) THEN { Raised }
        ELSE IF reader # "fallback"
        THEN { Raised, Done(ReaderDocs(file_path, reader, d)) }
        ELSE { Done(FallbackDocs(file_path)) }

FirstPending(ts) ==
    CHOOSE i \in 1..Len(ts) : ts[i].state = "pending" /\ \A j \in 1..(i - 1) : ts[j].state # "pending"

\* the event loop runs the next extraction task; extract_file has no await
\* and runs to its end in one step, tasks in creation order
RunTask ==
    /\ pc = "extract"
    /\ \E i \in 1..Len(tasks) : tasks[i].state = "pending"
    /\ LET i == FirstPending(tasks)
       IN  \E r \in ExtractFile(downloaded_files[i][2], file_extractor, disk) :
              tasks' = [tasks EXCEPT ![i] = r]
    /\ late_read' = (late_read \/ ~temp_dir)
    /\ UNCHANGED <<store, listing, config, self, run, pc, temp_dir, disk, files, idx, batch, result,
                   attempted, failed, dl_state>>

\* a gather that keeps the exceptions to itself (return_exceptions=True)
GatherRaises_Isolated(ts) == FALSE

\* asyncio.gather(*tasks) without return_exceptions: whether the await
\* raises
GatherRaises(ts) == \E i \in 1..Len(ts) : ts[i].state = "raised"

RECURSIVE Extend_Prepend(_, _)
\* results put in front of the list document by document
Extend_Prepend(ts, i) ==
    IF i > Len(ts) THEN <<>>
    ELSE Extend_Prepend(ts, i + 1)
         \o [k \in 1..Len(ts[i].docs) |-> ts[i].docs[Len(ts[i].docs) + 1 - k]]

RECURSIVE Extend(_, _)
\* documents.extend(result) for every result from position i on
Extend(ts, i) == IF i > Len(ts) THEN <<>> ELSE ts[i].docs \o Extend(ts, i + 1)

\* extract_files after the gather: it raises the exception of a task, or
\* returns the concatenated results, which load_data assigns to
\* self.documents
Gather ==
    /\ pc = "extract"
    /\ \A i \in 1..Len(tasks) : tasks[i].state # "pending"
    /\ IF GatherRaises(tasks)
       THEN /\ exc' = "extract" /\ UNCHANGED documents
       ELSE /\ documents' = Extend(tasks, 1) /\ UNCHANGED exc
    /\ pc' = "exit"
    /\ UNCHANGED <<store, listing, config, has_downloaded_files, downloaded_files, run, temp_dir, disk, locals,
                   outcome, returned, hist>>

\* the with block is left: the directory is removed, and load_data
\* returns self.documents or lets the exception through
ExitWith ==
    /\ pc = "exit"
    /\ temp_dir' = TempDirAfterExit(exc)
    /\ disk' = IF temp_dir' THEN disk ELSE {}
    /\ outcome' = IF exc = "none" THEN "returned" ELSE "raised"
    /\ returned' = IF exc = "none" THEN documents ELSE <<>>
    /\ tasks' = <<>>
    /\ pc' = "idle"
    /\ UNCHANGED <<store, listing, config, self, run, files, idx, batch, exc, hist>>

\* get_document_list: one item per record; an exception while converting
\* (missing attribute, short tuple) is logged and ends the loop
RECURSIVE DocumentListFrom(_, _)
DocumentListFrom(dfs, i) ==
    IF i > Len(dfs) \/ Len(dfs[i]) < 4 THEN <<>>
    ELSE << [link |-> dfs[i][1], indexed_on |-> dfs[i][3], size |-> dfs[i][4]] >>
         \o DocumentListFrom(dfs, i + 1)

get_document_list ==
    IF has_downloaded_files THEN DocumentListFrom(downloaded_files, 1) ELSE <<>>

Next ==
    \/ LoadDataOpendal
    \/ LoadDataGDrive
    \/ LoadDataOneDrive
    \/ Scan
    \/ LoadSingleFile
    \/ DownloadStart
    \/ DownloadFinishOpendal
    \/ DownloadFinishGDrive
    \/ DownloadFinishOneDrive
    \/ EndDownload
    \/ RunTask
    \/ Gather
    \/ ExitWith

Spec == Init /\ [][Next]_vars

(* ------------------------------ properties ---------------------------- *)

Running == pc \in {"scan", "single", "download", "downloading", "extract", "exit"}

\* DownloadedFileRecord.source_path of the record made for remote file f
SourcePath(f) == IF kind = "opendal" THEN ObjPath(f) ELSE WebLink(f)

\* the remote files whose download ended well in the current/last run
Downloaded == { files[i] : i \in attempted \ failed }

RecordsOf(recs, f) == { j \in 1..Len(recs) : recs[j][1] = SourcePath(f) }

\* C1: the temporary directory exists from before the first download to the
\* end of the with block, is gone (with every file in it) once load_data has
\* ended, however it ended, and no extraction task ran without it.
C1_TempDirScoped ==
    /\ Running => temp_dir
    /\ pc = "idle" => (~temp_dir /\ disk = {})
    /\ ~late_read

\* a run that ended by the exception of an extraction task, directory gone
C1_Witness == pc = "idle" /\ exc = "extract" /\ outcome = "raised" /\ ~temp_dir /\ attempted # {}

\* C2: when the download call of one file raised, the batch download did
\* not raise and the downloads of all later files are attempted.
C2_DownloadFailureConfined ==
    failed # {} =>
        /\ dl_state # "raised"
        /\ pc \in {"extract", "exit", "idle"} =>
              \A i \in 1..Len(files) :
                 (Eligible(kind, files[i]) /\ \E k \in failed : k < i) => i \in attempted

\* C3: the collection the batch download returns has no record for a file
\* whose download failed and exactly one for a file whose download succeeded.
C3_RecordsMatchDownloads ==
    dl_state = "returned" =>
        \A i \in 1..Len(files) :
            Cardinality(RecordsOf(batch, files[i])) = (IF i \in attempted \ failed THEN 1 ELSE 0)

\* C4: every record has a local path with a supported suffix, and a listing
\* of the 2-page a.pdf and b.xyz yields exactly the two parts of a.pdf.
C4_SupportedSuffixOnly ==
    /\ \A j \in 1..Len(batch) :
          Len(batch[j]) = 4 => Suffix(batch[j][2]) \in DOMAIN DEFAULT_FILE_READER_CLS
    /\ (pc = "idle" /\ outcome = "returned" /\ files = <<FileById(1), FileById(3)>>) =>
          /\ Len(returned) = 2
          /\ \A n \in 1..Len(returned) :
                /\ Suffix(returned[n].file) = ".pdf"
                /\ returned[n].id_ = PartId(returned[n].file, n - 1)

\* C5: when an extraction task raised, extract_files and load_data raise and
\* load_data returns no documents.
C5_ExtractionFailurePropagates ==
    /\ (pc = "exit" /\ \E i \in 1..Len(tasks) : tasks[i].state = "raised") => exc = "extract"
    /\ (pc = "idle" /\ exc = "extract") => (outcome = "raised" /\ returned = <<>>)

\* one task raised while another one had produced documents
C5_Witness ==
    /\ pc = "exit" /\ exc = "extract"
    /\ \E i, j \in 1..Len(tasks) : tasks[i].state = "raised" /\ tasks[j].state = "done" /\ Len(tasks[j].docs) > 0

\* C6: after a load run, get_document_list has exactly one entry for each
\* file downloaded in that run and no other entry.
C6_DocumentListIsLastRun ==
    (pc = "idle" /\ run > 0) =>
        LET dl == get_document_list
        IN  /\ \A f \in Downloaded :
                 Cardinality({ j \in 1..Len(dl) : dl[j].link = SourcePath(f) /\ dl[j].indexed_on = run }) = 1
            /\ \A j \in 1..Len(dl) :
                 /\ dl[j].indexed_on = run
                 /\ \E f \in Downloaded : dl[j].link = SourcePath(f)

\* C7: no two documents of one extraction run have the same id.
C7_UniqueIds ==
    \A i, j \in 1..Len(documents) : i # j => documents[i].id_ # documents[j].id_

\* C8: every document's id is its file's local path, "_part_", and its
\* position in the output of its file.
C8_PartIds ==
    \A i \in 1..Len(documents) : documents[i].id_ = PartId(documents[i].file, documents[i].part)

\* C9: a file whose suffix has an entry in the override mapping is extracted
\* by that entry; any other file by the default registry or the fallback.
C9_OverrideTakesPrecedence ==
    \A i \in 1..Len(documents) :
        LET sfx == Lower(Suffix(documents[i].file))
        IN  IF sfx \in DOMAIN file_extractor
            THEN documents[i].reader = file_extractor[sfx]
            ELSE documents[i].reader =
                    (IF sfx \in DOMAIN DEFAULT_FILE_READER_CLS THEN DEFAULT_FILE_READER_CLS[sfx] ELSE "fallback")

\* C10: a run of the object-store reader on a path without trailing
\* separator that no backend failure stopped fetched that one file, left
\* exactly one 4-field record and returned; on a path with trailing
\* separator every scanned object was fetched.
C10_SinglePathOneRecord ==
    /\ (kind = "opendal" /\ ~EndsWithSlash(path) /\ pc = "idle" /\ run > 0
          /\ exc \notin {"listing", "download", "extract"}) =>
          /\ attempted = {1}
          /\ has_downloaded_files /\ Len(downloaded_files) = 1 /\ Len(downloaded_files[1]) = 4
          /\ outcome = "returned"
    /\ (kind = "opendal" /\ EndsWithSlash(path) /\ dl_state = "returned") =>
          attempted = 1..Len(files)

\* C11: a load_data whose listing step failed (the listing call raised, or
\* no drive client could be obtained) ends with an error for the caller.
C11_ListingFailureSurfaces ==
    (pc = "idle" /\ listing \in {"raised", "no_client"}) => outcome = "raised"

\* the positions whose download has run to its end
Completed == attempted \ (IF pc = "downloading" THEN {idx} ELSE {})

\* C19: once the download of any file has run to its end, the download of
\* every file of the batch has been started; and the batch download returns
\* only when every download has ended.
C19_DownloadsFanOut ==
    /\ Completed # {} => \A i \in 1..Len(files) : Eligible(kind, files[i]) => i \in attempted
    /\ dl_state = "returned" =>
          \A i \in 1..Len(files) : Eligible(kind, files[i]) => i \in Completed

RECURSIVE DocsBefore(_, _)
\* how many documents the tasks before task t produced
DocsBefore(ts, t) == IF t <= 1 THEN 0 ELSE DocsBefore(ts, t - 1) + Len(ts[t - 1].docs)

\* C20: extract_files has one task per record, all created before any has
\* run; it ends only when no task is pending; the list it returns holds the
\* documents of each task as one contiguous block, in part-index order.
C20_OneTaskPerFileGrouped ==
    /\ pc = "extract" => Len(tasks) = Len(downloaded_files)
    /\ (pc = "exit" /\ dl_state = "returned") =>
          \A t \in 1..Len(tasks) : tasks[t].state # "pending"
    /\ (pc = "exit" /\ dl_state = "returned" /\ exc = "none") =>
          /\ Len(documents) = DocsBefore(tasks, Len(tasks) + 1)
          /\ \A t \in 1..Len(tasks) : \A k \in 1..Len(tasks[t].docs) :
                /\ documents[DocsBefore(tasks, t) + k] = tasks[t].docs[k]
                /\ documents[DocsBefore(tasks, t) + k].part = k - 1

\* two files were extracted, one of them into two parts
C20_Witness ==
    /\ pc = "exit" /\ dl_state = "returned" /\ exc = "none"
    /\ Len(tasks) >= 2
    /\ \E t \in 1..Len(tasks) : Len(tasks[t].docs) = 2
    /\ \E t \in 1..Len(tasks) : Len(tasks[t].docs) = 1

(***************************************************************************)
(* The space-group store (source/docq/manage_space_groups.py).  Every      *)
(* function opens its own connection, runs its statements in one implicit  *)
(* transaction and commits at the end; a statement that raises leaves the  *)
(* function before the commit and closing the connection rolls back.       *)
(***************************************************************************)

(* ---------------------------- bounds ---------------------------------- *)

\* number of create_space_group / update_space_group calls (clock ticks)
MaxOps == 3

(* ---------------------------- inputs ---------------------------------- *)

\* Python None / SQL NULL
None == <<"None">>

Orgs == {1, 2}

\* the rows of table spaces, which another module owns
Spaces == { [id |-> 1, name |-> "s1"], [id |-> 2, name |-> "s2"] }

\* the group ids callers pass
GroupIdInputs == {1, 2}

\* names and summaries are strings, as sequences of characters
CreateNames == { <<"A">>, <<"B">> }
CreateSummaries == { None, <<"s">> }

\* the (name, summary) arguments of update_space_group
UpdateFields ==
    { <<None, None>>, <<<<>>, None>>, <<None, <<>>>>, <<<<"B">>, <<"t">>>>, <<<<"A">>, None>> }

\* the members arguments: lists of space ids; no space has id 3
MemberLists == { <<>>, <<1>>, <<1, 2>>, <<2, 2>>, <<3>> }

\* the name_match arguments of list_space_groups
NameFilters == { None, <<>>, <<"A">> }

(* ------------------------------ SQL ----------------------------------- *)

\* Python truthiness of an optional string: None and "" are false
Truthy(v) == v # None /\ v # <<>>

Range(seq) == { seq[i] : i \in 1..Len(seq) }

\* INTEGER PRIMARY KEY without AUTOINCREMENT: one more than the largest id
NextRowId(groups) ==
    IF groups = {} THEN 1
    ELSE 1 + (CHOOSE n \in { g.id : g \in groups } : \A g \in groups : g.id <= n)

\* no uniqueness check at all
UniqueViolation_Unchecked(groups, id, name) == FALSE

\* name TEXT UNIQUE: would the row id, given this name, clash with another
\* row (NULL names never clash)
UniqueViolation(groups, id, name) ==
    name # None /\ \E g \in groups : g.id # id /\ g.name = name

\* INSERT INTO space_groups (org_id, name, summary) VALUES (?, ?, ?)
InsertGroup(groups, org_id, name, summary, t) ==
    groups \cup { [id |-> NextRowId(groups), org_id |-> org_id, name |-> name, summary |-> summary,
                   created_at |-> t, updated_at |-> t] }

\* UPDATE space_groups SET updated_at = ? [, name = ?] [, summary = ?]
\* WHERE id = ? AND org_id = ?, the optional parts as the code builds them
UpdateGroup(groups, id, org_id, name, summary, t) ==
    { IF g.id = id /\ g.org_id = org_id
      THEN [g EXCEPT !.updated_at = t,
                     !.name = IF Truthy(name) THEN name ELSE @,
                     !.summary = IF Truthy(summary) THEN summary ELSE @]
      ELSE g : g \in groups }

\* a delete that leaves the membership rows where they are
DeleteMemberRows_Kept(members, id) == members

\* DELETE FROM space_group_members WHERE group_id = ?
DeleteMemberRows(members, id) == { m \in members : m.group_id # id }

\* DELETE FROM space_groups WHERE id = ? AND org_id = ?
DeleteGroupRows(groups, id, org_id) == { g \in groups : ~(g.id = id /\ g.org_id = org_id) }

\* ON DELETE CASCADE for the group rows deleted, which acts only when
\* foreign keys are enforced
Cascade(members, deleted, fk) ==
    IF fk THEN { m \in members : ~\E g \in deleted : g.id = m.group_id } ELSE members

\* executemany INSERT INTO space_group_members: does it raise?  The
\* primary key (group_id, space_id) rejects a pair given twice; the foreign
\* keys, when enforced, a group or a space that does not exist.
InsertMembersRaises(members, groups, id, list, fk) ==
    \/ Cardinality(Range(list)) < Len(list)
    \/ \E x \in Range(list) : [group_id |-> id, space_id |-> x] \in members
    \/ /\ fk
       /\ list # <<>>
       /\ \/ ~\E g \in groups : g.id = id
          \/ \E x \in Range(list) : ~\E sp \in Spaces : sp.id = x

InsertMemberRows(members, id, list) ==
    members \cup { [group_id |-> id, space_id |-> x] : x \in Range(list) }

\* name LIKE '%m%': m occurs in name (one letter case in this model)
Like(name, m) ==
    name # None /\ \E i \in 0..(Len(name) - Len(m)) : SubSeq(name, i + 1, i + Len(m)) = m

\* a reader that sees the uncommitted tables of the open connection
ReaderView_Uncommitted(committed, t) ==
    IF t.open THEN [groups |-> t.groups, members |-> t.members] ELSE committed

\* what another connection reads: the committed tables only
ReaderView(committed, t) == committed

\* list_space_groups on the tables db; rows as records, in no order
ListRows(db, org_id, name_match) ==
    LET pattern == IF Truthy(name_match) THEN name_match ELSE <<>>
        groups  == { g \in db.groups : g.org_id = org_id /\ Like(g.name, pattern) }
        joined  == { <<c.group_id, sp.id, sp.name>> :
                        c \in { c \in db.members : \E g \in groups : g.id = c.group_id },
                        sp \in Spaces }
        members == { y \in joined : \E c \in db.members : c.group_id = y[1] /\ c.space_id = y[2] }
    IN  { [id |-> g.id, org_id |-> g.org_id, name |-> g.name, summary |-> g.summary,
           members |-> { <<y[2], y[3]>> : y \in { z \in members : z[1] = g.id } },
           created_at |-> g.created_at, updated_at |-> g.updated_at] : g \in groups }

\* the tables as of the last commit
Committed == [groups |-> space_groups, members |-> space_group_members]

\* list_space_groups called now, on a connection of its own
list_space_groups(org_id, name_match) ==
    ListRows(ReaderView(Committed, txn), org_id, name_match)

(* ---------------------------- operations ------------------------------ *)

\* a connection in autocommit mode: the statements run so far stay
AfterFailure_Autocommit(committed, t) ==
    IF t.open THEN [groups |-> t.groups, members |-> t.members] ELSE committed

\* the tables once a statement has raised: the connection is closed
\* without commit(), so its transaction is rolled back
AfterFailure(committed, t) == committed

\* the members list_space_groups shows for group id of org_id, as space ids
ListedMembers(org_id, id) ==
    { y[1] : y \in UNION { r.members : r \in { r \in list_space_groups(org_id, None) : r.id = id } } }

\* a statement raised: the function is left before commit() and the
\* connection is closed, which rolls the transaction back
RollBack ==
    /\ txn' = NoTxn
    /\ op' = [op EXCEPT !.pc = "done", !.ok = FALSE]
    /\ space_groups' = AfterFailure(Committed, txn).groups
    /\ space_group_members' = AfterFailure(Committed, txn).members

\* connection.commit()
CommitTxn ==
    /\ space_groups' = txn.groups
    /\ space_group_members' = txn.members
    /\ txn' = NoTxn
    /\ op' = [op EXCEPT !.pc = "done", !.ok = TRUE]

CallCreate(org_id, name, summary) ==
    /\ op.kind = "none"
    /\ now < MaxOps
    /\ now' = now + 1
    /\ op' = [kind |-> "create", pc |-> "called", ok |-> FALSE, id |-> 0, org_id |-> org_id,
              members |-> <<>>, name |-> name, summary |-> summary, at |-> now + 1, before |-> {},
              rows |-> 0]
    /\ UNCHANGED <<pipeline, space_groups, space_group_members, txn, foreign_keys>>

\* create_space_group: the INSERT and the commit
ExecCreate ==
    /\ op.kind = "create"
    /\ op.pc = "called"
    /\ IF UniqueViolation(space_groups, NextRowId(space_groups), op.name)
       THEN /\ op' = [op EXCEPT !.pc = "done", !.ok = FALSE]
            /\ UNCHANGED space_groups
       ELSE /\ op' = [op EXCEPT !.pc = "done", !.ok = TRUE, !.id = NextRowId(space_groups)]
            /\ space_groups' = InsertGroup(space_groups, op.org_id, op.name, op.summary, op.at)
    /\ UNCHANGED <<pipeline, space_group_members, txn, now, foreign_keys>>

CallUpdate(id, org_id, members, name, summary) ==
    /\ op.kind = "none"
    /\ now < MaxOps
    /\ now' = now + 1
    /\ op' = [kind |-> "update", pc |-> "called", ok |-> FALSE, id |-> id, org_id |-> org_id,
              members |-> members, name |-> name, summary |-> summary, at |-> now + 1,
              before |-> ListedMembers(org_id, id), rows |-> 0]
    /\ UNCHANGED <<pipeline, space_groups, space_group_members, txn, foreign_keys>>

\* update_space_group: cursor.execute(query, params), which opens the
\* transaction
UpdateStatement ==
    /\ op.kind = "update"
    /\ op.pc = "called"
    /\ LET updated == UpdateGroup(space_groups, op.id, op.org_id, op.name, op.summary, op.at)
       IN  IF \E g \in updated : g.id = op.id /\ g.org_id = op.org_id
                                 /\ UniqueViolation(space_groups, g.id, g.name)
           THEN RollBack
           ELSE /\ txn' = [open |-> TRUE, groups |-> updated, members |-> space_group_members]
                /\ op' = [op EXCEPT !.pc = "updated",
                                    !.rows = Cardinality(updated \ space_groups)]
                /\ UNCHANGED <<space_groups, space_group_members>>
    /\ UNCHANGED <<pipeline, now, foreign_keys>>

\* update_space_group: DELETE FROM space_group_members WHERE group_id = ?
DeleteStatement ==
    /\ op.kind = "update"
    /\ op.pc = "updated"
    /\ txn' = [txn EXCEPT !.members = DeleteMemberRows(@, op.id)]
    /\ op' = [op EXCEPT !.pc = "deleted"]
    /\ UNCHANGED <<pipeline, space_groups, space_group_members, now, foreign_keys>>

\* update_space_group: the executemany INSERT
InsertStatement ==
    /\ op.kind = "update"
    /\ op.pc = "deleted"
    /\ IF InsertMembersRaises(txn.members, txn.groups, op.id, op.members, foreign_keys)
       THEN RollBack
       ELSE /\ txn' = [txn EXCEPT !.members = InsertMemberRows(@, op.id, op.members)]
            /\ op' = [op EXCEPT !.pc = "inserted"]
            /\ UNCHANGED <<space_groups, space_group_members>>
    /\ UNCHANGED <<pipeline, now, foreign_keys>>

\* update_space_group: connection.commit()
CommitUpdate ==
    /\ op.kind = "update"
    /\ op.pc = "inserted"
    /\ CommitTxn
    /\ UNCHANGED <<pipeline, now, foreign_keys>>

CallDelete(id, org_id) ==
    /\ op.kind = "none"
    /\ op' = [kind |-> "delete", pc |-> "called", ok |-> FALSE, id |-> id, org_id |-> org_id,
              members |-> <<>>, name |-> None, summary |-> None, at |-> now,
              before |-> ListedMembers(org_id, id), rows |-> 0]
    /\ UNCHANGED <<pipeline, space_groups, space_group_members, txn, now, foreign_keys>>

\* delete_space_group: both DELETE statements and the commit
ExecDelete ==
    /\ op.kind = "delete"
    /\ op.pc = "called"
    /\ space_groups' = DeleteGroupRows(space_groups, op.id, op.org_id)
    /\ space_group_members' =
           Cascade(DeleteMemberRows(space_group_members, op.id), space_groups \ space_groups',
                   foreign_keys)
    /\ op' = [op EXCEPT !.pc = "done", !.ok = TRUE,
                        !.rows = Cardinality(space_groups \ space_groups')]
    /\ UNCHANGED <<pipeline, txn, now, foreign_keys>>

\* the function returns, or its exception reaches the caller
Return ==
    /\ op.pc = "done"
    /\ op' = NoOp
    /\ UNCHANGED <<pipeline, space_groups, space_group_members, txn, now, foreign_keys>>

InitGroups ==
    /\ StoreAtRest
    /\ foreign_keys \in BOOLEAN
    /\ listing = "none"
    /\ kind = "opendal"
    /\ path = DirPath
    /\ file_extractor = NoOverride
    /\ has_downloaded_files = FALSE
    /\ downloaded_files = <<>>
    /\ documents = <<>>
    /\ run = 0
    /\ pc = "idle"
    /\ temp_dir = FALSE
    /\ disk = {}
    /\ files = <<>>
    /\ idx = 1
    /\ batch = <<>>
    /\ tasks = <<>>
    /\ exc = "none"
    /\ outcome = "none"
    /\ returned = <<>>
    /\ attempted = {}
    /\ failed = {}
    /\ dl_state = "none"
    /\ late_read = FALSE

NextGroups ==
    \/ \E o \in Orgs, n \in CreateNames, s \in CreateSummaries : CallCreate(o, n, s)
    \/ ExecCreate
    \/ \E i \in GroupIdInputs, o \in Orgs, m \in MemberLists, f \in UpdateFields :
          CallUpdate(i, o, m, f[1], f[2])
    \/ UpdateStatement
    \/ DeleteStatement
    \/ InsertStatement
    \/ CommitUpdate
    \/ \E i \in GroupIdInputs, o \in Orgs : CallDelete(i, o)
    \/ ExecDelete
    \/ Return

SpecGroups == InitGroups /\ [][NextGroups]_vars

(* ----------------------- properties of the store ---------------------- *)

\* the update_space_group call has returned True for a row it matched
UpdateSucceeded == op.kind = "update" /\ op.pc = "done" /\ op.ok /\ op.rows = 1

\* the step in which delete_space_group runs its statements and commits
DeleteStep == op.kind = "delete" /\ op.pc = "called" /\ op'.pc = "done"

\* C12: after update_space_group(id, org_id, members=M) succeeded on an
\* existing group of that org, list_space_groups(org_id) shows the group
\* with exactly the member set M.
C12_UpdateSetsMembers ==
    UpdateSucceeded =>
        \E r \in list_space_groups(op.org_id, None) :
            r.id = op.id /\ { y[1] : y \in r.members } = Range(op.members)

\* C13: delete_space_group(id, org_id) on a group of a different org
\* deletes nothing: the group row and its membership rows stay as they were.
C13_DeleteScopedToOrg ==
    [][ (DeleteStep /\ \E g \in space_groups : g.id = op.id /\ g.org_id # op.org_id)
            => UNCHANGED <<space_groups, space_group_members>> ]_vars

\* C14: delete_space_group(id, org_id) on a group owned by org_id leaves no
\* membership row of that group and no group row (no org's listing returns
\* it), and leaves the rows and memberships of every other group unchanged.
C14_DeleteRemovesGroup ==
    [][ (DeleteStep /\ \E g \in space_groups : g.id = op.id /\ g.org_id = op.org_id)
            => /\ \A m \in space_group_members' : m.group_id # op.id
               /\ \A g \in space_groups' : g.id # op.id
               /\ \A o \in Orgs : \A r \in list_space_groups(o, None)' : r.id # op.id
               /\ space_groups' = { g \in space_groups : g.id # op.id }
               /\ space_group_members' = { m \in space_group_members : m.group_id # op.id } ]_vars

\* a delete removed a group that had members while another group remains
C14_Witness ==
    /\ op.kind = "delete" /\ op.pc = "done" /\ op.rows = 1 /\ op.before # {}
    /\ space_groups # {}

\* C15: update_space_group makes a supplied name (summary) the group's new
\* name (summary), the empty string included; keeps a field that is not
\* supplied; refreshes updated_at; never changes id, org_id or created_at.
C15_PartialUpdate ==
    [][ (op.kind = "update" /\ op.pc = "inserted" /\ op'.pc = "done")
            => \A g \in space_groups :
                   (g.id = op.id /\ g.org_id = op.org_id)
                       => \E h \in space_groups' :
                              /\ h.id = g.id
                              /\ h.org_id = g.org_id
                              /\ h.created_at = g.created_at
                              /\ h.updated_at = op.at
                              /\ h.name = (IF op.name # None THEN op.name ELSE g.name)
                              /\ h.summary = (IF op.summary # None THEN op.summary ELSE g.summary) ]_vars

\* C16: after any sequence of create, update and delete calls no two space
\* groups have the same name, across orgs; a create_space_group whose name
\* is in use fails and adds no group.
C16_UniqueNames ==
    [][ /\ \A g, h \in space_groups' : g.id # h.id => g.name # h.name
        /\ (op.kind = "create" /\ op.pc = "called" /\ \E g \in space_groups : g.name = op.name)
               => (op'.pc = "done" /\ ~op'.ok /\ space_groups' = space_groups) ]_vars

\* a create was refused for its name while groups of both names exist
C16_Witness ==
    /\ op.kind = "create" /\ op.pc = "done" /\ ~op.ok
    /\ Cardinality(space_groups) >= 2

\* update_space_group is between its first statement and its commit
UpdateInProgress == op.kind = "update" /\ op.pc \in {"updated", "deleted", "inserted"}

\* C17 as stated: while an update that replaces a non-empty membership by a
\* non-empty member set is between its delete-all and its bulk-insert, a
\* concurrent list_space_groups observes the group with an empty membership.
C17_MidStateVisible ==
    (op.kind = "update" /\ op.pc = "deleted" /\ op.rows = 1
        /\ op.before # {} /\ op.members # <<>>)
        => ListedMembers(op.org_id, op.id) = {}

\* C17 amended: the replacement is atomic for concurrent readers; while
\* the update is in progress a concurrent list_space_groups observes the
\* group with the membership it had before the update, never an empty one
\* in place of a non-empty one.
C17_ReplacementAtomic ==
    UpdateInProgress => ListedMembers(op.org_id, op.id) = op.before

\* an update of a group with members is past its delete-all, which emptied
\* the membership on its own connection, and before its bulk-insert of a
\* different, non-empty member set
C17_Witness ==
    /\ op.kind = "update" /\ op.pc = "deleted" /\ op.rows = 1
    /\ op.before # {}
    /\ op.members # <<>>
    /\ Range(op.members) # op.before
    /\ ~\E m \in txn.members : m.group_id = op.id
    /\ \E m \in space_group_members : m.group_id = op.id

\* name contains the filter f (no filter: every name)
Contains(name, f) ==
    f = None \/ \E i \in 1..(Len(name) + 1) : \E j \in 0..Len(name) : SubSeq(name, i, j) = f

\* C18: list_space_groups(org_id) returns exactly the groups of that org
\* (those whose name contains the filter, when one is given), each with
\* exactly its own membership rows as members; after
\* create_space_group(1, "A", "s") on an empty store, list_space_groups(1)
\* returns one group named "A" with no members.
C18_ListExactlyOwnGroups ==
    /\ \A o \in Orgs, f \in NameFilters :
          LET L == list_space_groups(o, f)
          IN  /\ { [id |-> r.id, org_id |-> r.org_id, name |-> r.name, summary |-> r.summary,
                    created_at |-> r.created_at, updated_at |-> r.updated_at] : r \in L }
                   = { g \in space_groups : g.org_id = o /\ Contains(g.name, f) }
              /\ \A r \in L :
                    { y[1] : y \in r.members }
                        = { c.space_id : c \in { c \in space_group_members : c.group_id = r.id } }
    /\ (op.kind = "create" /\ op.pc = "done" /\ op.ok /\ op.org_id = 1 /\ op.name = <<"A">>
            /\ op.summary = <<"s">> /\ Cardinality(space_groups) = 1 /\ space_group_members = {})
           => \E r \in list_space_groups(1, None) :
                  /\ list_space_groups(1, None) = {r}
                  /\ r.name = <<"A">>
                  /\ r.members = {}

\* C21: for every record of every reader, size_bytes is the number of bytes
\* written to local_path (here: where the whole content of the record's
\* remote file is at local_path, the length of that content), not the size
\* the listing reported.
C21_SizeIsBytesWritten ==
    \A j \in 1..Len(batch) : \A f \in Catalogue :
        (/\ Len(batch[j]) = 4
         /\ batch[j][1] = SourcePath(f)
         /\ Exists(disk, batch[j][2])
         /\ DiskAt(disk, batch[j][2]).content = f.id
         /\ DiskAt(disk, batch[j][2]).complete)
            => batch[j][4] = f.bytes

\* C22: after any sequence of create, update and delete calls every row of
\* space_group_members refers to a group that exists in space_groups.
C22_NoOrphanMembers ==
    \A m \in space_group_members : \E g \in space_groups : g.id = m.group_id

\* the step in which update_space_group commits
UpdateCommitStep == op.kind = "update" /\ op.pc = "inserted" /\ op'.pc = "done"

\* C23: update_space_group called with an org_id that does not own the
\* group changes nothing of that group: its row and its membership rows are
\* the same after the call as before.
C23_UpdateScopedToOrg ==
    [][ UpdateCommitStep =>
            \A g \in space_groups :
                (g.id = op.id /\ g.org_id # op.org_id)
                    => /\ g \in space_groups'
                       /\ { m \in space_group_members' : m.group_id = g.id }
                              = { m \in space_group_members : m.group_id = g.id } ]_vars

\* C25: when update_space_group fails with a store error the store is left
\* exactly as before the call: no step of the failing call changes a
\* committed row, nothing stays pending, and the group is listed with the
\* membership it had before the call.
C25_FailedUpdateChangesNothing ==
    [][ (op.kind = "update" /\ op.pc # "done" /\ ~(op'.pc = "done" /\ op'.ok))
            => /\ UNCHANGED <<space_groups, space_group_members>>
               /\ op'.pc = "done" =>
                     /\ txn' = NoTxn
                     /\ ListedMembers(op.org_id, op.id)' = op.before ]_vars

\* an update that gave a new name and the same space twice to a group with
\* members has failed after its UPDATE and its delete-all; the group still
\* has its name and its members
C25_Witness ==
    /\ op.kind = "update" /\ op.pc = "done" /\ ~op.ok /\ op.rows = 1
    /\ op.name = <<"B">>
    /\ op.members = <<2, 2>>
    /\ op.before # {}
    /\ \E g \in space_groups : g.id = op.id /\ g.name = <<"A">> /\ g.updated_at < op.at
    /\ \E m \in space_group_members : m.group_id = op.id

\* C24: every record handed to extraction names a local_path at which the
\* downloader wrote the complete file: while the extraction tasks run, no
\* record's local_path is missing or partial.
C24_RecordsNameCompleteFiles ==
    pc = "extract" =>
        \A j \in 1..Len(downloaded_files) :
            /\ Exists(disk, downloaded_files[j][2])
            /\ DiskAt(disk, downloaded_files[j][2]).complete

====
